---- MODULE Spec2Model ----
(***************************************************************************)
(* Credential Lifecycle Manager (getAccessToken / scheduleTokenRefresh)    *)
(* and Resilient Request Pipeline (ApiClient.request) of emr-web.          *)
(*                                                                         *)
(* JavaScript is single threaded: every action below is one run of code    *)
(* between two suspension points (await of the identity provider, await    *)
(* of fetch, a timer).                                                     *)
(***************************************************************************)
EXTENDS Integers, Sequences, FiniteSets, TLC

\* ------------------------------------------------------------------ bounds
NReq == 2       \* logical requests issued next to the renewal timer in one run
MaxOps == 2     \* RefreshOperations started in one run

\* ------------------------------------------------------- program constants
TOKEN_REFRESH_BUFFER_MS == 300000
maxRetries == 3
baseDelayMs == 1000
maxDelayMs == 30000
jitterPermille == 200       \* jitterFactor 0.2
QUERY_MAX_DELAY_MS == 30000
DEFAULT_TIMEOUT == 30000
Undefined == -1000          \* the JavaScript value undefined / null of a number

Requests == 1..NReq
TimerCb == 0                \* the renewal timer's callback, as a caller
AppCaller == NReq + 1       \* code of the application that calls getAccessToken(scopes)
Callers == {TimerCb} \cup Requests \cup {AppCaller}
NoAccountPromise == -1      \* the rejected promise of line 706

SilentErrors == {"interaction_required"}
InteractiveErrors == {"user_cancelled"}

\* expiresOn of an acquisition response, relative to the instant of the response
Lifetimes == {0, TOKEN_REFRESH_BUFFER_MS, 2 * TOKEN_REFRESH_BUFFER_MS}

NoResult == [kind |-> "none", tok |-> 0, err |-> ""]
Fulfilled(t) == [kind |-> "token", tok |-> t, err |-> ""]
Rejected(e) == [kind |-> "error", tok |-> 0, err |-> e]

VARIABLES
  isRefreshing,          \* patient-api.ts:659
  tokenRefreshPromise,   \* patient-api.ts:658, 0 is null, else the operation's id
  tokenRefreshTimeout,   \* patient-api.ts:651, 0 is null, else the timer's id
  ops,                   \* the RefreshOperations started so far (the async IIFE of 719-747)
  timers,                \* pending renewal timers of the event loop
  lastExpiresOn,         \* expiresOn of the latest acquisition response
  account,               \* getCurrentAccount() # null
  now,                   \* Date.now()
  calls,                 \* per caller: its latest getAccessToken() call
  cbWaiting,             \* the timer callback is suspended at line 682
  req,                   \* per logical request: the frame of ApiClient.request
  isProduction,          \* process.env.NODE_ENV === 'production'
  csrfToken,             \* what getCsrfToken() finds, 0 is null
  fn,                    \* one call of a module-level function: arguments and result
  NEXT_PUBLIC_API_URL,   \* process.env.NEXT_PUBLIC_API_URL, "" when unset
  cachedApiBaseUrl,      \* part_018:100, the module-level cache
  baseUrl,               \* part_018:160, this.baseUrl of the apiClient singleton
  route,                 \* one mounted ProtectedRoute: its hooks' values and state
  unhandled              \* a promise rejected with no handler attached

tokenVars == <<isRefreshing, tokenRefreshPromise, tokenRefreshTimeout, ops, timers,
               lastExpiresOn>>
envVars == <<isProduction, csrfToken>>
urlVars == <<NEXT_PUBLIC_API_URL, cachedApiBaseUrl, baseUrl>>
pageVars == <<NEXT_PUBLIC_API_URL, cachedApiBaseUrl, baseUrl, route, unhandled>>
vars == <<isRefreshing, tokenRefreshPromise, tokenRefreshTimeout, ops, timers,
          lastExpiresOn, account, now, calls, cbWaiting, req,
          isProduction, csrfToken, fn,
          NEXT_PUBLIC_API_URL, cachedApiBaseUrl, baseUrl, route, unhandled>>

InProgress(op) == op.phase \in {"silent", "popup"}
Settled(op) == op.phase \in {"fulfilled", "rejected"}
OpsInProgress == {o \in DOMAIN ops : InProgress(ops[o])}
SettledCount == Cardinality({o \in DOMAIN ops : Settled(ops[o])})

\* ------------------------------------------------ Credential Lifecycle Manager

\* line 698: if (isRefreshing && tokenRefreshPromise) return tokenRefreshPromise
RefreshInProgress_Never == FALSE
RefreshInProgress == isRefreshing /\ tokenRefreshPromise # 0

\* line 716: isRefreshing = true
MutexSet_Forgotten == FALSE
MutexSet == TRUE

\* the scopes argument of getAccessToken: left out, or an array of scope names
NoScopes == [given |-> FALSE, list |-> <<>>]
ScopesGiven(list) == [given |-> TRUE, list |-> list]
\* msal-config, line 509: tokenRequest.scopes
DefaultScopes == <<"api.read">>
\* line 711: scopes || tokenRequest.scopes (an array, even an empty one, is truthy)
EffectiveScopes(scopes) == IF scopes.given THEN scopes.list ELSE DefaultScopes

\* a getAccessToken() call: the promise it returned (op), the number of
\* operations settled when it was made (w), its scopes argument, and what the
\* promise settled to
NewCall(o, res, scopes) == [op |-> o, w |-> SettledCount, got |-> res, scopes |-> scopes]
NoCall == [op |-> 0, w |-> 0, got |-> NoResult, scopes |-> NoScopes]

\* getAccessToken(scopes), lines 695-750, up to its first await
GetAccessTokenWith_AccountFirst(c, scopes) ==
  IF ~account
  THEN /\ calls' = [calls EXCEPT ![c] =
                      NewCall(NoAccountPromise, Rejected("No active account found"),
                              scopes)]
       /\ UNCHANGED <<isRefreshing, tokenRefreshPromise, ops>>
  ELSE IF RefreshInProgress
  THEN /\ calls' = [calls EXCEPT ![c] = NewCall(tokenRefreshPromise, NoResult, scopes)]
       /\ UNCHANGED <<isRefreshing, tokenRefreshPromise, ops>>
  ELSE /\ Len(ops) < MaxOps
       /\ isRefreshing' = MutexSet
       /\ ops' = Append(ops, [phase |-> "silent", w |-> SettledCount,
                              silentFailed |-> FALSE, popups |-> 0, err |-> "",
                              scopes |-> EffectiveScopes(scopes)])
       /\ tokenRefreshPromise' = Len(ops) + 1
       /\ calls' = [calls EXCEPT ![c] = NewCall(Len(ops) + 1, NoResult, scopes)]
GetAccessTokenWith(c, scopes) ==
  IF RefreshInProgress
  THEN /\ calls' = [calls EXCEPT ![c] = NewCall(tokenRefreshPromise, NoResult, scopes)]
       /\ UNCHANGED <<isRefreshing, tokenRefreshPromise, ops>>
  ELSE IF ~account
  THEN /\ calls' = [calls EXCEPT ![c] =
                      NewCall(NoAccountPromise, Rejected("No active account found"),
                              scopes)]
       /\ UNCHANGED <<isRefreshing, tokenRefreshPromise, ops>>
  ELSE /\ Len(ops) < MaxOps
       /\ isRefreshing' = MutexSet
       /\ ops' = Append(ops, [phase |-> "silent", w |-> SettledCount,
                              silentFailed |-> FALSE, popups |-> 0, err |-> "",
                              scopes |-> EffectiveScopes(scopes)])
       /\ tokenRefreshPromise' = Len(ops) + 1
       /\ calls' = [calls EXCEPT ![c] = NewCall(Len(ops) + 1, NoResult, scopes)]

\* getAccessToken() without argument: line 207 of the api client and line 682
GetAccessToken(c) == GetAccessTokenWith(c, NoScopes)

\* lines 663-666: clearTimeout(tokenRefreshTimeout)
ClearExisting_Keep(ts, handle) == ts
ClearExisting(ts, handle) == IF handle # 0 THEN {t \in ts : t.id # handle} ELSE ts

\* line 678: if (timeUntilRefresh > 0)
ShouldSchedule_Inclusive(timeUntilRefresh) == timeUntilRefresh >= 0
ShouldSchedule(timeUntilRefresh) == timeUntilRefresh > 0

\* scheduleTokenRefresh(expiresOn), lines 661-688, called by operation o; a
\* timer remembers whether setting it replaced a pending one
ScheduleTokenRefresh(o, expiresOn) ==
  LET cleared == ClearExisting(timers, tokenRefreshTimeout)
      timeUntilRefresh == (expiresOn - TOKEN_REFRESH_BUFFER_MS) - now
  IN IF expiresOn # Undefined /\ ShouldSchedule(timeUntilRefresh)
     THEN /\ timers' = cleared \cup {[id |-> o, at |-> now + timeUntilRefresh,
                                       replaced |-> cleared # timers]}
          /\ tokenRefreshTimeout' = o
     ELSE /\ timers' = cleared
          /\ tokenRefreshTimeout' = 0

\* lines 742-746: the finally block
Finally_Skip(flag, handle) == <<flag, handle>>
Finally(flag, handle) == <<FALSE, 0>>

Release ==
  /\ isRefreshing' = Finally(isRefreshing, tokenRefreshPromise)[1]
  /\ tokenRefreshPromise' = Finally(isRefreshing, tokenRefreshPromise)[2]

\* the promise of operation o settles: every caller awaiting it gets the result
Settle(o, res) ==
  calls' = [c \in Callers |->
              IF calls[c].op = o /\ calls[c].got.kind = "none"
              THEN [calls[c] EXCEPT !.got = res] ELSE calls[c]]

\* response.accessToken of operation o: each acquisition is answered with a
\* token of its own
TokenOf(o) == o

\* lines 721-726 / 732-737: an acquisition resolves
AcquireSuccess(o, expiresOn) ==
  /\ o \in OpsInProgress
  /\ ops' = [ops EXCEPT ![o].phase = "fulfilled"]
  /\ lastExpiresOn' = expiresOn
  /\ ScheduleTokenRefresh(o, expiresOn)
  /\ Release
  /\ Settle(o, Fulfilled(TokenOf(o)))
  /\ UNCHANGED <<account, now, cbWaiting, req, envVars, fn, pageVars>>

\* lines 727-732: acquireTokenSilent rejects, fall back to acquireTokenPopup
SilentFailed_NoFallback(op, e) ==
  [op EXCEPT !.phase = "rejected", !.err = e, !.silentFailed = TRUE]
SilentFailed(op, e) ==
  [op EXCEPT !.phase = "popup", !.silentFailed = TRUE, !.popups = @ + 1]

SilentFailure(o, e) ==
  /\ o \in DOMAIN ops /\ ops[o].phase = "silent"
  /\ ops' = [ops EXCEPT ![o] = SilentFailed(@, e)]
  /\ UNCHANGED <<isRefreshing, tokenRefreshPromise, tokenRefreshTimeout, timers,
                 lastExpiresOn, account, now, calls, cbWaiting, req, envVars, fn, pageVars>>

\* lines 738-741 and the finally: acquireTokenPopup rejects
InteractiveFailure(o, e) ==
  /\ o \in DOMAIN ops /\ ops[o].phase = "popup"
  /\ ops' = [ops EXCEPT ![o] = [@ EXCEPT !.phase = "rejected", !.err = e]]
  /\ Release
  /\ Settle(o, Rejected(e))
  /\ UNCHANGED <<tokenRefreshTimeout, timers, lastExpiresOn,
                 account, now, cbWaiting, req, envVars, fn, pageVars>>

\* lines 679-686: time passes until the renewal timer is due, it fires and its
\* callback calls getAccessToken()
TimerFire(t) ==
  /\ t \in timers
  /\ ~cbWaiting
  /\ now' = IF t.at > now THEN t.at ELSE now
  /\ timers' = timers \ {t}
  /\ GetAccessToken(TimerCb)
  /\ cbWaiting' = TRUE
  /\ UNCHANGED <<tokenRefreshTimeout, lastExpiresOn, account, req, envVars, fn, pageVars>>

\* lines 681-685: the await of line 682 is inside try, and the catch logs the
\* error and returns, so the promise of the callback never rejects
CallbackCatch_Missing(u, res) == u \/ res.kind = "error"
CallbackCatch(u, res) == u

\* lines 682-685: the callback resumes; a rejection is caught and logged
TimerCallbackResume ==
  /\ cbWaiting
  /\ calls[TimerCb].got.kind # "none"
  /\ cbWaiting' = FALSE
  /\ calls' = [calls EXCEPT ![TimerCb] = NoCall]
  /\ unhandled' = CallbackCatch(unhandled, calls[TimerCb].got)
  /\ UNCHANGED <<tokenVars, account, now, req, envVars, fn, urlVars, route>>

\* application code calls the exported getAccessToken(scopes) and awaits it
AppCall(scopes) ==
  /\ calls[AppCaller].op = 0
  /\ GetAccessTokenWith(AppCaller, scopes)
  /\ UNCHANGED <<tokenRefreshTimeout, timers, lastExpiresOn, account, now, cbWaiting,
                 req, envVars, fn, pageVars>>

\* its await resumes with the token or the error
AppResume ==
  /\ calls[AppCaller].got.kind # "none"
  /\ calls' = [calls EXCEPT ![AppCaller] = NoCall]
  /\ UNCHANGED <<tokenVars, account, now, cbWaiting, req, envVars, fn, pageVars>>

\* ----------------------------------------------------------- Request Pipeline

Methods == {"GET", "POST", "PUT", "PATCH", "DELETE"}     \* lines 388-418
CsrfTokens == {0, 1, 2}
\* line 216: the methods that need an anti-forgery token
StateChanging_NoDelete == {"POST", "PUT", "PATCH"}
StateChanging == {"POST", "PUT", "PATCH", "DELETE"}
Statuses == {200, 404, 429, 500}

\* the Retry-After header of a response: absent, integer seconds, an HTTP date
\* (as its distance in ms from Date.now()), or something unparsable
RetryAfterHeaders ==
  {[kind |-> "absent", v |-> 0], [kind |-> "junk", v |-> 0],
   [kind |-> "int", v |-> 0], [kind |-> "int", v |-> 2],
   [kind |-> "date", v |-> 4500]}

\* Math.ceil(ms / 1000) for ms > 0
CeilSeconds(ms) == (ms + 999) \div 1000

\* parseRetryAfter(), lines 132-149
ParseRetryAfter(h) ==
  CASE h.kind = "absent" -> Undefined
    [] h.kind = "int" -> h.v
    [] h.kind = "intText" -> h.v       \* parseInt reads the leading number
    [] h.kind = "date" -> IF h.v > 0 THEN CeilSeconds(h.v) ELSE 0
    [] OTHER -> Undefined

Min(a, b) == IF a <= b THEN a ELSE b

\* a jitter of up to 150 % of the base instead of jitterFactor = 20 %
Jitter_Wide(rnd, base) == (((rnd * base) \div 1000) * 1500) \div 1000

\* Math.random() * jitterFactor * base, for a draw of Math.random() given in
\* thousandths (exact for the draws used, multiples of 0.005, and bases that
\* are whole seconds)
Jitter(rnd, base) == (((rnd * base) \div 1000) * jitterPermille) \div 1000

\* line 117: retryAfterSeconds !== undefined && retryAfterSeconds > 0
HintUsable_NonNegative(retryAfterSeconds) ==
  retryAfterSeconds # Undefined /\ retryAfterSeconds >= 0
HintUsable(retryAfterSeconds) ==
  retryAfterSeconds # Undefined /\ retryAfterSeconds > 0

\* calculateBackoffDelay(), lines 115-127
CalculateBackoffDelay_NoCap(attempt, retryAfterSeconds, rnd) ==
  IF HintUsable(retryAfterSeconds)
  THEN retryAfterSeconds * 1000 + Jitter(rnd, retryAfterSeconds * 1000)
  ELSE baseDelayMs * 2^attempt + Jitter(rnd, baseDelayMs * 2^attempt)
CalculateBackoffDelay(attempt, retryAfterSeconds, rnd) ==
  IF HintUsable(retryAfterSeconds)
  THEN Min(retryAfterSeconds * 1000 + Jitter(rnd, retryAfterSeconds * 1000), maxDelayMs)
  ELSE LET exponentialDelay == baseDelayMs * 2^attempt
       IN Min(exponentialDelay + Jitter(rnd, exponentialDelay), maxDelayMs)

\* calculateRetryDelay() of the query layer, query-client.ts lines 17-36, for an
\* error with the given statusCode and details.retryAfterSeconds
CalculateRetryDelay(failureCount, statusCode, retryAfterSeconds, rnd) ==
  IF statusCode = 429 /\ retryAfterSeconds # Undefined /\ retryAfterSeconds # 0
  THEN Min(retryAfterSeconds * 1000 + Jitter(rnd, retryAfterSeconds * 1000),
           QUERY_MAX_DELAY_MS)
  ELSE LET exponentialDelay == 1000 * 2^failureCount
       IN Min(exponentialDelay + Jitter(rnd, exponentialDelay), QUERY_MAX_DELAY_MS)

\* response bodies: content type JSON or not, parsable or not, and the `code`
\* field of a JSON object body ("" when it has none)
Bodies ==
  {[json |-> FALSE, valid |-> TRUE, code |-> ""],
   [json |-> TRUE, valid |-> FALSE, code |-> ""],
   [json |-> TRUE, valid |-> TRUE, code |-> ""],
   [json |-> TRUE, valid |-> TRUE, code |-> "RATE_LIMITED"]}

NoError == [kind |-> "none", code |-> "", statusCode |-> Undefined,
            retryAfterSeconds |-> Undefined]
\* an object of the ApiError shape {code, message, statusCode?, details?}
ApiErr(code, status, hint) ==
  [kind |-> "ApiError", code |-> code, statusCode |-> status, retryAfterSeconds |-> hint]
\* a JavaScript exception object (TypeError, SyntaxError): it has no `code`
RawErr(name) ==
  [kind |-> name, code |-> "", statusCode |-> Undefined, retryAfterSeconds |-> Undefined]

HttpCode(status) ==
  CASE status = 404 -> "HTTP_404"
    [] status = 500 -> "HTTP_500"
    [] status = 429 -> "HTTP_429"
    [] OTHER -> "HTTP_200"

\* what a request resolved with: the response it came from and how the body
\* was decoded (line 269: response.json(), line 271: response.text())
NoData == [from |-> 0, as |-> ""]

\* the frame of one request() call. auth, csrfHdr and tokRes are the Headers of
\* the current attempt (0: header not set) and the outcome of its
\* getAccessToken() call; timeout is config.timeout; timer is the pending
\* timeout of line 313 (its duration in ms, 0: none) and aborted the state of
\* the attempt's abort signal; delay is the argument of the sleep of line 350;
\* peers records the other requests whose network call was outstanding when
\* this one was aborted
IdleRequest ==
  [pc |-> "idle", method |-> "GET", withAuth |-> TRUE, skip |-> FALSE,
   attempt |-> 0, netCalls |-> 0, sleeps |-> 0, resp |-> 0, r429 |-> 0,
   lastStatus |-> 0, lastHint |-> Undefined, lastError |-> NoError, err |-> NoError,
   auth |-> 0, csrfHdr |-> 0, tokRes |-> "none", timeout |-> Undefined,
   timer |-> 0, aborted |-> FALSE, peers |-> {}, delay |-> 0, data |-> NoData,
   endpoint |-> "", url |-> ""]

\* line 304: config?.timeout || this.defaultTimeout, for the singleton of
\* line 422, constructed with DEFAULT_TIMEOUT
TimeoutFor(timeout) ==
  IF timeout # Undefined /\ timeout # 0 THEN timeout ELSE DEFAULT_TIMEOUT

\* the attempt's Headers and timeout are dropped when the attempt ends (the
\* clearTimeout of lines 349, 360 and 377; `headers` is local to the iteration)
EndAttempt_KeepTimer(rec) ==
  [rec EXCEPT !.auth = 0, !.csrfHdr = 0, !.tokRes = "none"]
EndAttempt(rec) ==
  [rec EXCEPT !.auth = 0, !.csrfHdr = 0, !.tokRes = "none", !.timer = 0]

\* line 306: maxRetries of one logical request
MaxRetriesFor_IgnoreSkip(skip) == maxRetries
MaxRetriesFor(skip) == IF skip THEN 0 ELSE maxRetries

\* lines 216-219: the anti-forgery token read by this attempt's buildHeaders
\* (0: the method is not state changing, or getCsrfToken() found none)
CsrfHeader(rec) == IF rec.method \in StateChanging THEN csrfToken ELSE 0

\* lines 206-242, then 312-321: buildHeaders after the await of getAccessToken()
\* (res is its outcome, NoResult when it was not called), the CSRF check, the
\* timeout of line 313 and the fetch call
HeadersBuilt(rec, res) ==
  IF rec.method \in StateChanging /\ CsrfHeader(rec) = 0 /\ isProduction
  THEN [rec EXCEPT !.pc = "rejected", !.err = ApiErr("CSRF_TOKEN_MISSING", 403, Undefined)]
  ELSE [rec EXCEPT !.pc = "fetch", !.netCalls = @ + 1,
                   !.auth = IF res.kind = "token" THEN res.tok ELSE 0,
                   !.csrfHdr = CsrfHeader(rec), !.tokRes = res.kind,
                   !.timer = TimeoutFor(rec.timeout)]

\* lines 208-211: the catch around getAccessToken() logs and goes on
OnTokenRejected_Throw(rec, res) ==
  [rec EXCEPT !.pc = "rejected", !.err = RawErr(res.err)]
OnTokenRejected(rec, res) == HeadersBuilt(rec, res)

\* line 204: config?.withAuth !== false
NeedsToken_FirstOnly(rec) == rec.withAuth /\ rec.attempt = 0
NeedsToken(rec) == rec.withAuth

\* buildHeaders(), lines 197-212: up to the await of getAccessToken()
BuildHeaders(r, rec) ==
  IF NeedsToken(rec)
  THEN /\ GetAccessToken(r)
       /\ req' = [req EXCEPT ![r] = [rec EXCEPT !.pc = "token"]]
       /\ UNCHANGED <<tokenRefreshTimeout, timers, lastExpiresOn>>
  ELSE /\ req' = [req EXCEPT ![r] = HeadersBuilt(rec, NoResult)]
       /\ UNCHANGED <<tokenVars, calls>>

\* lines 310 and 382: after a `continue`, attempt++ and the loop test; past
\* the last attempt the fallback throw of line 382
NextAttempt(r, rec) ==
  LET nxt == [rec EXCEPT !.attempt = @ + 1, !.delay = 0]
  IN IF nxt.attempt <= MaxRetriesFor(rec.skip)
     THEN BuildHeaders(r, nxt)
     ELSE /\ req' = [req EXCEPT ![r] = [nxt EXCEPT !.pc = "rejected",
                         !.err = IF rec.lastError.kind # "none" THEN rec.lastError
                                 ELSE ApiErr("UNKNOWN", 500, Undefined)]]
          /\ UNCHANGED <<tokenVars, calls>>

\* lines 206-211: buildHeaders resumes with the token, or swallows the rejection
TokenDelivered(r) ==
  /\ req[r].pc = "token"
  /\ calls[r].got.kind # "none"
  /\ req' = [req EXCEPT ![r] = IF calls[r].got.kind = "error"
                                THEN OnTokenRejected(@, calls[r].got)
                                ELSE HeadersBuilt(@, calls[r].got)]
  /\ calls' = [calls EXCEPT ![r] = NoCall]
  /\ UNCHANGED <<tokenVars, account, now, cbWaiting, envVars, fn, pageVars>>

\* lines 336-345: the error stored for a 429 response
RateLimitedError_Stale(prev, hint) ==
  IF prev.kind = "none" THEN ApiErr("RATE_LIMITED", 429, hint) ELSE prev
RateLimitedError(prev, hint) == ApiErr("RATE_LIMITED", 429, hint)

\* lines 348 and 371: attempt < maxRetries
RetriesLeft_Inclusive(attempt, max) == attempt <= max
RetriesLeft(attempt, max) == attempt < max

\* lines 358 and 267-272: request() returns what handleResponse decodes from
\* the response at hand, the resp-th of the request
Decoded_First(resp, body) == [from |-> 1, as |-> IF body.json THEN "json" ELSE "text"]
Decoded(resp, body) == [from |-> resp, as |-> IF body.json THEN "json" ELSE "text"]

\* handleResponse(), lines 263-292, for a response that is not ok
HttpError(status, body) ==
  IF body.json /\ body.code # ""
  THEN ApiErr(body.code, status, Undefined)
  ELSE ApiErr(HttpCode(status), status, Undefined)

\* lines 316-378: the response of the network call arrives
Response(r, status, hdr, body, rnd) ==
  /\ req[r].pc = "fetch"
  /\ LET rec == EndAttempt([req[r] EXCEPT !.resp = @ + 1, !.lastStatus = status,
                               !.r429 = IF status = 429 THEN @ + 1 ELSE @,
                               !.lastHint = IF status = 429 THEN ParseRetryAfter(hdr) ELSE @])
         max == MaxRetriesFor(rec.skip)
         retryAfter == ParseRetryAfter(hdr)
         lastError == RateLimitedError(rec.lastError, retryAfter)
     IN IF status = 429
        THEN IF RetriesLeft(rec.attempt, max)
             THEN \* lines 348-352: clearTimeout, sleep(delay), continue
                  /\ req' = [req EXCEPT ![r] = [rec EXCEPT !.pc = "sleep",
                                 !.sleeps = @ + 1, !.lastError = lastError,
                                 !.delay = CalculateBackoffDelay(rec.attempt, retryAfter, rnd)]]
                  /\ UNCHANGED <<tokenVars, calls>>
             ELSE \* line 355 through the catch of 359-375
                  /\ req' = [req EXCEPT ![r] = [rec EXCEPT !.pc = "rejected",
                                 !.lastError = lastError, !.err = lastError]]
                  /\ UNCHANGED <<tokenVars, calls>>
        ELSE IF body.json /\ ~body.valid
        THEN \* line 269: response.json() throws, rethrown by line 375
             /\ req' = [req EXCEPT ![r] = [rec EXCEPT !.pc = "rejected",
                            !.err = RawErr("SyntaxError")]]
             /\ UNCHANGED <<tokenVars, calls>>
        ELSE IF status = 200
        THEN /\ req' = [req EXCEPT ![r] = [rec EXCEPT !.pc = "resolved",
                                                      !.data = Decoded(rec.resp, body)]]
             /\ UNCHANGED <<tokenVars, calls>>
        ELSE IF HttpError(status, body).code = "RATE_LIMITED"
                /\ RetriesLeft(rec.attempt, max)
        THEN \* lines 371-373: continue, the next attempt starts at once
             NextAttempt(r, rec)
        ELSE /\ req' = [req EXCEPT ![r] = [rec EXCEPT !.pc = "rejected",
                            !.err = HttpError(status, body)]]
             /\ UNCHANGED <<tokenVars, calls>>
  /\ UNCHANGED <<account, now, cbWaiting, envVars, fn, pageVars>>

\* line 316: fetch rejects (network failure), rethrown by line 375
FetchFails(r) ==
  /\ req[r].pc = "fetch"
  /\ req' = [req EXCEPT ![r] = [EndAttempt(@) EXCEPT !.pc = "rejected",
                                                     !.err = RawErr("TypeError")]]
  /\ UNCHANGED <<tokenVars, account, now, calls, cbWaiting, envVars, fn, pageVars>>

\* line 312: each attempt has an AbortController of its own, so the abort of
\* line 313 reaches the network call of that attempt only
AbortTargets_Shared(r) == Requests
AbortTargets(r) == {r}

\* lines 359-367: fetch rejects with AbortError, the catch throws TIMEOUT
Aborted_Rethrow(rec) ==
  [EndAttempt(rec) EXCEPT !.pc = "rejected", !.aborted = TRUE,
                          !.err = RawErr("AbortError")]
Aborted(rec) ==
  [EndAttempt(rec) EXCEPT !.pc = "rejected", !.aborted = TRUE,
                          !.err = ApiErr("TIMEOUT", 408, Undefined)]

\* line 313: the timeout of an attempt elapses and its callback aborts the
\* controller; an outstanding network call of that controller rejects
Timeout(r) ==
  /\ req[r].timer # 0
  /\ req' = [q \in Requests |->
               IF q \in AbortTargets(r) /\ req[q].pc = "fetch"
               THEN [Aborted(req[q]) EXCEPT
                       !.peers = {p \in Requests \ {q} : req[p].pc = "fetch"}]
               ELSE IF q = r THEN [req[q] EXCEPT !.timer = 0]
               ELSE req[q]]
  /\ UNCHANGED <<tokenVars, account, now, calls, cbWaiting, envVars, fn, pageVars>>

\* lines 350-351 and 310-311: the back-off sleep ends, the next attempt starts
SleepEnd(r) ==
  /\ req[r].pc = "sleep"
  /\ NextAttempt(r, req[r])
  /\ UNCHANGED <<account, now, cbWaiting, envVars, fn, pageVars>>

\* the page's csrf-token meta tag or XSRF-TOKEN cookie is set, rotated or
\* removed (lines 182-192 read them at each call)
CsrfChanges(v) ==
  /\ v # csrfToken
  /\ csrfToken' = v
  /\ UNCHANGED <<tokenVars, account, now, calls, cbWaiting, req, isProduction, fn, pageVars>>

\* signOut(), lines 612-641: the account is removed; the page then navigates
\* away, so no sign-in follows within the lifetime of this module state
SignOut ==
  /\ account
  /\ account' = FALSE
  /\ UNCHANGED <<tokenVars, now, calls, cbWaiting, req, envVars, fn, pageVars>>

\* ------------------------------------------------ getApiBaseUrl(), lines 27-96
\* Host names are sequences of characters, so that the prefix, suffix and
\* pattern tests of the code are computed on them.
StartsWith(s, p) == Len(s) >= Len(p) /\ SubSeq(s, 1, Len(p)) = p
EndsWith(s, p) == Len(s) >= Len(p) /\ SubSeq(s, Len(s) - Len(p) + 1, Len(s)) = p

\* values of NEXT_PUBLIC_API_URL; "" is the variable unset or empty
ConfiguredUrls ==
  {"", "not a url",
   "https://api.example.com", "http://api.example.com", "http://localhost:5000",
   "https://localhost", "https://127.0.0.1", "https://127.8.8.8",
   "https://[::1]", "https://0.0.0.0", "https://emr.local",
   "https://10.0.0.5", "https://172.16.0.9", "https://172.32.0.9",
   "https://192.168.1.1", "https://[fd00::1]", "https://[fe80::1]",
   "https://fd.io"}

NoUrl == [ok |-> FALSE, protocol |-> "", hostname |-> <<>>]
Url(protocol, hostname) == [ok |-> TRUE, protocol |-> protocol, hostname |-> hostname]

\* new URL(configuredUrl), line 51: the protocol and hostname properties of the
\* parsed URL (the hostname of an IPv6 literal keeps its brackets), or the
\* TypeError for a string that is no URL
ParseUrl(u) ==
  CASE u = "https://api.example.com" ->
         Url("https:", <<"a", "p", "i", ".", "e", "x", "a", "m", "p", "l", "e", ".", "c", "o", "m">>)
    [] u = "http://api.example.com" ->
         Url("http:", <<"a", "p", "i", ".", "e", "x", "a", "m", "p", "l", "e", ".", "c", "o", "m">>)
    [] u = "http://localhost:5000" ->
         Url("http:", <<"l", "o", "c", "a", "l", "h", "o", "s", "t">>)
    [] u = "https://localhost" ->
         Url("https:", <<"l", "o", "c", "a", "l", "h", "o", "s", "t">>)
    [] u = "https://127.0.0.1" ->
         Url("https:", <<"1", "2", "7", ".", "0", ".", "0", ".", "1">>)
    [] u = "https://127.8.8.8" ->
         Url("https:", <<"1", "2", "7", ".", "8", ".", "8", ".", "8">>)
    [] u = "https://[::1]" ->
         Url("https:", <<"[", ":", ":", "1", "]">>)
    [] u = "https://0.0.0.0" ->
         Url("https:", <<"0", ".", "0", ".", "0", ".", "0">>)
    [] u = "https://emr.local" ->
         Url("https:", <<"e", "m", "r", ".", "l", "o", "c", "a", "l">>)
    [] u = "https://10.0.0.5" ->
         Url("https:", <<"1", "0", ".", "0", ".", "0", ".", "5">>)
    [] u = "https://172.16.0.9" ->
         Url("https:", <<"1", "7", "2", ".", "1", "6", ".", "0", ".", "9">>)
    [] u = "https://172.32.0.9" ->
         Url("https:", <<"1", "7", "2", ".", "3", "2", ".", "0", ".", "9">>)
    [] u = "https://192.168.1.1" ->
         Url("https:", <<"1", "9", "2", ".", "1", "6", "8", ".", "1", ".", "1">>)
    [] u = "https://[fd00::1]" ->
         Url("https:", <<"[", "f", "d", "0", "0", ":", ":", "1", "]">>)
    [] u = "https://[fe80::1]" ->
         Url("https:", <<"[", "f", "e", "8", "0", ":", ":", "1", "]">>)
    [] u = "https://fd.io" ->
         Url("https:", <<"f", "d", ".", "i", "o">>)
    [] OTHER -> NoUrl

\* line 63
localhostVariants ==
  {<<"l", "o", "c", "a", "l", "h", "o", "s", "t">>,
   <<"1", "2", "7", ".", "0", ".", "0", ".", "1">>,
   <<":", ":", "1">>,
   <<"[", ":", ":", "1", "]">>,
   <<"0", ".", "0", ".", "0", ".", "0">>}

\* lines 64-66
IsLocalhost(hostname) ==
  \/ hostname \in localhostVariants
  \/ EndsWith(hostname, <<".", "l", "o", "c", "a", "l">>)
  \/ StartsWith(hostname, <<"1", "2", "7", ".">>)

Digits == {"0", "1", "2", "3", "4", "5", "6", "7", "8", "9"}

\* line 69: /^(10\.|172\.(1[6-9]|2[0-9]|3[01])\.|192\.168\.)/
PrivateIPv4Pattern(hostname) ==
  \/ StartsWith(hostname, <<"1", "0", ".">>)
  \/ /\ StartsWith(hostname, <<"1", "7", "2", ".">>) /\ Len(hostname) >= 7 /\ hostname[7] = "."
     /\ \/ hostname[5] = "1" /\ hostname[6] \in {"6", "7", "8", "9"}
        \/ hostname[5] = "2" /\ hostname[6] \in Digits
        \/ hostname[5] = "3" /\ hostname[6] \in {"0", "1"}
  \/ StartsWith(hostname, <<"1", "9", "2", ".", "1", "6", "8", ".">>)

\* line 75: /^(fc|fd|fe80:)/i; url.hostname is in lower case already
PrivateIPv6Pattern(hostname) ==
  \/ StartsWith(hostname, <<"f", "c">>)
  \/ StartsWith(hostname, <<"f", "d">>)
  \/ StartsWith(hostname, <<"f", "e", "8", "0", ":">>)

Returned(value, warned) == [kind |-> "return", value |-> value, warned |-> warned]
Thrown(message) == [kind |-> "throw", value |-> message, warned |-> FALSE]

\* getApiBaseUrl(), lines 27-96: the returned string or the thrown Error, and
\* whether console.warn was called
GetApiBaseUrl(configuredUrl, production) ==
  IF configuredUrl = ""
  THEN IF production THEN Thrown("not configured")
       ELSE Returned("http://localhost:5000", TRUE)
  ELSE LET url == ParseUrl(configuredUrl)
       IN IF ~url.ok THEN Thrown("Invalid API URL format")
          ELSE IF production /\ url.protocol # "https:" THEN Thrown("must use HTTPS")
          ELSE IF production /\ (\/ IsLocalhost(url.hostname)
                                 \/ PrivateIPv4Pattern(url.hostname)
                                 \/ PrivateIPv6Pattern(url.hostname))
          THEN Thrown("localhost or private network")
          ELSE Returned(configuredUrl, FALSE)

\* ------------------------------------- base URL cache and buildUrl(), 98-258
NullUrl == "null"            \* the JavaScript value null of a string

\* getApiBaseUrlLazy(), lines 100-107: the result, and the cache after the call
GetApiBaseUrlLazy_Uncached(cached, env, production) ==
  IF cached = NullUrl
  THEN [out |-> GetApiBaseUrl(env, production), cached |-> cached]
  ELSE [out |-> Returned(cached, FALSE), cached |-> cached]
GetApiBaseUrlLazy(cached, env, production) ==
  IF cached = NullUrl
  THEN LET res == GetApiBaseUrl(env, production)
       IN [out |-> res, cached |-> IF res.kind = "return" THEN res.value ELSE cached]
  ELSE [out |-> Returned(cached, FALSE), cached |-> cached]

\* ApiClient.getBaseUrl(), lines 172-177, for the singleton of line 422
\* (constructed without a baseUrl): the result, and both caches after the call
GetBaseUrl ==
  IF baseUrl = NullUrl
  THEN LET lazy == GetApiBaseUrlLazy(cachedApiBaseUrl, NEXT_PUBLIC_API_URL, isProduction)
       IN [out |-> lazy.out, cached |-> lazy.cached,
           baseUrl |-> IF lazy.out.kind = "return" THEN lazy.out.value ELSE baseUrl]
  ELSE [out |-> Returned(baseUrl, FALSE), cached |-> cachedApiBaseUrl,
        baseUrl |-> baseUrl]

\* endpoint arguments: a path, and an absolute URL of another host
Endpoints == {"/patients", "http://10.0.0.5/patients"}
\* config.params: none, or one numeric parameter
NoParams == <<>>
ParamsChoices == {NoParams, <<[key |-> "page", value |-> 2]>>}

\* line 253: String(value)
StringOf(value) == CASE value = 2 -> "2" [] value = 10 -> "10" [] OTHER -> "0"

\* lines 251-255: url.searchParams.append(key, String(value)), as serialised
\* by url.toString()
Search(params) ==
  IF params = NoParams THEN ""
  ELSE "?" \o params[1].key \o "=" \o StringOf(params[1].value)

\* line 249: endpoint.startsWith('http')
IsAbsolute(endpoint) == StartsWith(endpoint, "http")

\* buildUrl(), lines 248-258. Every URL of the model is in serialised form
\* (lower-case host, non-empty path), on which new URL(...).toString()
\* returns its input.
BuildUrl(endpoint, params) ==
  IF IsAbsolute(endpoint)
  THEN [out |-> Returned(endpoint \o Search(params), FALSE),
        cached |-> cachedApiBaseUrl, baseUrl |-> baseUrl]
  ELSE LET base == GetBaseUrl
       IN [out |-> IF base.out.kind = "return"
                   THEN Returned(base.out.value \o endpoint \o Search(params), FALSE)
                   ELSE base.out,
           cached |-> base.cached, baseUrl |-> base.baseUrl]

\* request(), lines 298-311: a caller issues a logical request; an Error thrown
\* by buildUrl (line 305) rejects it before the first attempt
Request(r, m, endpoint, params, wa, sk, to) ==
  /\ req[r].pc = "idle"
  /\ LET built == BuildUrl(endpoint, params)
         rec == [req[r] EXCEPT !.method = m, !.withAuth = wa, !.skip = sk,
                               !.timeout = to, !.endpoint = endpoint]
     IN /\ cachedApiBaseUrl' = built.cached
        /\ baseUrl' = built.baseUrl
        /\ IF built.out.kind = "throw"
           THEN /\ req' = [req EXCEPT ![r] = [rec EXCEPT !.pc = "rejected",
                                                         !.err = RawErr("Error")]]
                /\ UNCHANGED <<tokenVars, calls>>
           ELSE BuildHeaders(r, [rec EXCEPT !.url = built.out.value])
  /\ UNCHANGED <<account, now, cbWaiting, envVars, fn, NEXT_PUBLIC_API_URL, route,
                 unhandled>>

\* a request for a path of the API, without query parameters
StartRequest(r, m, wa, sk, to) == Request(r, m, "/patients", NoParams, wa, sk, to)

\* the value of NEXT_PUBLIC_API_URL changes
ConfigChanges(u) ==
  /\ u # NEXT_PUBLIC_API_URL
  /\ NEXT_PUBLIC_API_URL' = u
  /\ UNCHANGED <<tokenVars, account, now, calls, cbWaiting, req, envVars, fn,
                 cachedApiBaseUrl, baseUrl, route, unhandled>>

\* the caller of a settled request has consumed its outcome: the frame is gone
Forget(r) ==
  /\ req[r].pc \in {"resolved", "rejected"}
  /\ req' = [req EXCEPT ![r] = IdleRequest]
  /\ UNCHANGED <<tokenVars, account, now, calls, cbWaiting, envVars, fn, pageVars>>

\* ------------------------------------ ProtectedRoute, protected-route.tsx 27-84
\* One mounted ProtectedRoute under React's rules: a render pass computes the
\* output from the state and hook values of that moment; after the commit the
\* effect runs, with the values its render pass saw, if a dependency differs
\* from those of the previous run; a state update schedules a render pass.
NoRoute == [mounted |-> FALSE]
UserRoles == {"Nurse", "Admin"}
\* the requiredRoles prop: not given, or an array of roles
RequiredRolesChoices == {{}, {"Admin"}}

\* line 51: requiredRoles && requiredRoles.length > 0 && !hasAnyRole(requiredRoles)
LacksRole(requiredRoles, userRole) == requiredRoles # {} /\ userRole \notin requiredRoles

\* lines 66-83: what a render pass returns
Rendered(isLoading, authCheckComplete, hasAccess) ==
  IF isLoading \/ ~authCheckComplete THEN "spinner"
  ELSE IF ~hasAccess THEN "null"
  ELSE "children"

\* the dependencies of the effect that can change (line 62): hasAnyRole is a
\* useCallback with no dependencies, router and fallbackUrl are fixed
DepsOf(rt) == <<rt.isAuthenticated, rt.isLoading, rt.requiredRoles>>

\* the component mounts: useState(false) twice (lines 36-37), inside a useAuth
\* that starts with isLoading true and isAuthenticated false (use-auth.ts 43-46)
Mount(requiredRoles, userRole) ==
  /\ ~route.mounted
  /\ route' = [mounted |-> TRUE, isAuthenticated |-> FALSE, isLoading |-> TRUE,
               userRole |-> userRole, requiredRoles |-> requiredRoles,
               authCheckComplete |-> FALSE, hasAccess |-> FALSE,
               needsRender |-> TRUE, effectPending |-> FALSE,
               seen |-> <<>>, deps |-> <<>>, out |-> "none", pushed |-> ""]
  /\ UNCHANGED <<tokenVars, account, now, calls, cbWaiting, req, envVars, fn, urlVars,
                 unhandled>>

\* one render pass of the component, lines 32-83
RenderPass ==
  /\ route.mounted /\ route.needsRender /\ ~route.effectPending
  /\ route' = [route EXCEPT
                 !.out = Rendered(route.isLoading, route.authCheckComplete,
                                  route.hasAccess),
                 !.seen = DepsOf(route),
                 !.effectPending = DepsOf(route) # route.deps,
                 !.needsRender = FALSE]
  /\ UNCHANGED <<tokenVars, account, now, calls, cbWaiting, req, envVars, fn, urlVars,
                 unhandled>>

\* the effect of lines 39-62 runs after the commit, with the isAuthenticated,
\* isLoading and requiredRoles of its render pass; hasAnyRole reads the roles
\* of the current account
RunEffect ==
  /\ route.mounted /\ route.effectPending
  /\ LET isAuthenticated == route.seen[1]
         isLoading == route.seen[2]
         requiredRoles == route.seen[3]
         done == [route EXCEPT !.effectPending = FALSE, !.deps = route.seen]
         set(complete, access, url) ==
           [done EXCEPT !.authCheckComplete = complete, !.hasAccess = access,
                        !.pushed = IF url = "" THEN @ ELSE url,
                        !.needsRender = @ \/ complete # route.authCheckComplete
                                          \/ access # route.hasAccess]
     IN route' = IF isLoading THEN done
                 ELSE IF ~isAuthenticated THEN set(TRUE, FALSE, "/login")
                 ELSE IF LacksRole(requiredRoles, route.userRole)
                 THEN set(TRUE, FALSE, "/unauthorized")
                 ELSE set(TRUE, TRUE, "")
  /\ UNCHANGED <<tokenVars, account, now, calls, cbWaiting, req, envVars, fn, urlVars,
                 unhandled>>

\* use-auth.ts lines 49-73: MSAL is idle, the effect of useAuth (it runs after
\* a commit, and again when the accounts change) stores the current user and
\* whether there is an account, and ends loading
MsalSettles(authenticated, userRole) ==
  /\ route.mounted /\ route.out # "none"
  /\ route' = [route EXCEPT !.isAuthenticated = authenticated, !.isLoading = FALSE,
                            !.userRole = userRole, !.needsRender = TRUE]
  /\ UNCHANGED <<tokenVars, account, now, calls, cbWaiting, req, envVars, fn, urlVars,
                 unhandled>>

\* use-auth.ts lines 51-56: an MSAL interaction is in progress
MsalInProgress ==
  /\ route.mounted /\ route.out # "none" /\ ~route.isLoading
  /\ route' = [route EXCEPT !.isLoading = TRUE, !.needsRender = TRUE]
  /\ UNCHANGED <<tokenVars, account, now, calls, cbWaiting, req, envVars, fn, urlVars,
                 unhandled>>

\* use-auth.ts lines 97-111: the signOut handler clears the auth state, on
\* success and on error, and leaves isLoading alone
UseAuthSignOut ==
  /\ route.mounted /\ route.out # "none" /\ route.isAuthenticated
  /\ route' = [route EXCEPT !.isAuthenticated = FALSE, !.needsRender = TRUE]
  /\ UNCHANGED <<tokenVars, account, now, calls, cbWaiting, req, envVars, fn, urlVars,
                 unhandled>>

\* the parent renders the component with another requiredRoles prop
PropsChange(requiredRoles) ==
  /\ route.mounted /\ route.out # "none" /\ requiredRoles # route.requiredRoles
  /\ route' = [route EXCEPT !.requiredRoles = requiredRoles, !.needsRender = TRUE]
  /\ UNCHANGED <<tokenVars, account, now, calls, cbWaiting, req, envVars, fn, urlVars,
                 unhandled>>

InitBase ==
  /\ isRefreshing = FALSE
  /\ tokenRefreshPromise = 0
  /\ tokenRefreshTimeout = 0
  /\ ops = <<>>
  /\ timers = {}
  /\ lastExpiresOn = Undefined
  /\ account = TRUE
  /\ now = 0
  /\ calls = [c \in Callers |-> NoCall]
  /\ cbWaiting = FALSE
  /\ req = [r \in Requests |-> IdleRequest]

NoFn == [f |-> "none"]

\* a page whose API URL is configured properly, with no ProtectedRoute mounted
InitPage ==
  /\ NEXT_PUBLIC_API_URL = "https://api.example.com"
  /\ cachedApiBaseUrl = NullUrl
  /\ baseUrl = NullUrl
  /\ route = NoRoute
  /\ unhandled = FALSE

ExpiresOnChoices == {Undefined} \cup {now + l : l \in Lifetimes}
PlainText == [json |-> FALSE, valid |-> TRUE, code |-> ""]
NoRetryAfter == [kind |-> "absent", v |-> 0]

\* The credential lifecycle: authenticated GET requests (request 1 with the
\* default retries, rate limited at most once, so that it asks for a token a
\* second time; the others with skipRateLimitRetry) and the renewal timer, all
\* calling getAccessToken() in any interleaving.
Init ==
  /\ InitBase
  /\ isProduction = FALSE
  /\ csrfToken = 1
  /\ fn = NoFn
  /\ InitPage

Next ==
  \/ \E o \in 1..MaxOps, x \in ExpiresOnChoices : AcquireSuccess(o, x)
  \/ \E o \in 1..MaxOps, e \in SilentErrors : SilentFailure(o, e)
  \/ \E o \in 1..MaxOps, e \in InteractiveErrors : InteractiveFailure(o, e)
  \/ \E t \in timers : TimerFire(t)
  \/ TimerCallbackResume
  \/ SignOut
  \/ \E r \in Requests : StartRequest(r, "GET", TRUE, r # 1, Undefined)
  \/ \E r \in Requests : TokenDelivered(r)
  \/ \E r \in Requests :
       \E status \in (IF r = 1 /\ req[r].attempt = 0 THEN {200, 429} ELSE {200}) :
         Response(r, status, NoRetryAfter, PlainText, 0)
  \/ \E r \in Requests : SleepEnd(r)

Spec == Init /\ [][Next]_vars

\* Concurrent requests: single-attempt GET requests, with and without auth,
\* in flight together while tokens are acquired and a renewal is scheduled;
\* any of them may time out.
IsoNext ==
  \/ \E o \in 1..MaxOps, x \in ExpiresOnChoices : AcquireSuccess(o, x)
  \/ \E o \in 1..MaxOps, e \in SilentErrors : SilentFailure(o, e)
  \/ \E o \in 1..MaxOps, e \in InteractiveErrors : InteractiveFailure(o, e)
  \/ \E r \in Requests, wa \in BOOLEAN : StartRequest(r, "GET", wa, TRUE, Undefined)
  \/ \E r \in Requests : TokenDelivered(r)
  \/ \E r \in Requests, status \in {200, 500} :
       Response(r, status, NoRetryAfter, PlainText, 0)
  \/ \E r \in Requests : Timeout(r)

IsoSpec == Init /\ [][IsoNext]_vars

\* The request pipeline: one logical request of any configuration against any
\* sequence of responses, in either deployment mode.
PipeRequests == {1}
Draws == {0, 995}            \* Math.random(), in thousandths

\* the ApiRequestConfig of the request: every withAuth and skipRateLimitRetry
\* with the default timeout, and two configs that set config.timeout
PipeConfigs ==
  [withAuth : BOOLEAN, skipRateLimitRetry : BOOLEAN, timeout : {Undefined}]
    \cup {[withAuth |-> FALSE, skipRateLimitRetry |-> TRUE, timeout |-> 0],
          [withAuth |-> FALSE, skipRateLimitRetry |-> FALSE, timeout |-> 5000]}

PipeInit ==
  /\ InitBase
  /\ isProduction \in BOOLEAN
  /\ csrfToken \in {0, 1}
  /\ fn = NoFn
  /\ InitPage

PipeNext ==
  \/ \E o \in 1..MaxOps : AcquireSuccess(o, Undefined)
  \/ \E o \in 1..MaxOps, e \in SilentErrors : SilentFailure(o, e)
  \/ \E o \in 1..MaxOps, e \in InteractiveErrors : InteractiveFailure(o, e)
  \/ SignOut
  \/ \E r \in PipeRequests, m \in Methods, c \in PipeConfigs :
       StartRequest(r, m, c.withAuth, c.skipRateLimitRetry, c.timeout)
  \/ \E r \in PipeRequests : TokenDelivered(r)
  \/ \E r \in PipeRequests, hdr \in RetryAfterHeaders, rnd \in Draws :
       Response(r, 429, hdr, PlainText, rnd)
  \/ \E r \in PipeRequests, status \in Statuses \ {429}, body \in Bodies :
       Response(r, status, NoRetryAfter, body, 0)
  \/ \E r \in PipeRequests : FetchFails(r)
  \/ \E r \in PipeRequests : Timeout(r)
  \/ \E r \in PipeRequests : SleepEnd(r)
  \/ \E v \in CsrfTokens : CsrfChanges(v)

PipeSpec == PipeInit /\ [][PipeNext]_vars

\* The base URL: requests for paths of the API and for absolute URLs, issued
\* one after the other while NEXT_PUBLIC_API_URL changes, in either mode.
UrlConfigs == {"", "https://api.example.com", "http://localhost:5000", "https://10.0.0.5"}

UrlInit ==
  /\ InitBase
  /\ isProduction \in BOOLEAN
  /\ csrfToken = 1
  /\ fn = NoFn
  /\ NEXT_PUBLIC_API_URL \in UrlConfigs
  /\ cachedApiBaseUrl = NullUrl
  /\ baseUrl = NullUrl
  /\ route = NoRoute
  /\ unhandled = FALSE

UrlNext ==
  \/ \E u \in UrlConfigs : ConfigChanges(u)
  \/ \E r \in PipeRequests, endpoint \in Endpoints, params \in ParamsChoices,
        wa \in BOOLEAN : Request(r, "GET", endpoint, params, wa, TRUE, Undefined)
  \/ \E o \in 1..MaxOps : AcquireSuccess(o, Undefined)
  \/ \E r \in PipeRequests : TokenDelivered(r)
  \/ \E r \in PipeRequests : Response(r, 200, NoRetryAfter, PlainText, 0)
  \/ \E r \in PipeRequests : Forget(r)

UrlSpec == UrlInit /\ [][UrlNext]_vars

\* A protected page: the auth state of useAuth and the props change in any
\* order between the render passes and effects of one ProtectedRoute.
RouteNext ==
  \/ \E rr \in RequiredRolesChoices, role \in UserRoles : Mount(rr, role)
  \/ RenderPass
  \/ RunEffect
  \/ \E a \in BOOLEAN, role \in UserRoles : MsalSettles(a, role)
  \/ MsalInProgress
  \/ UseAuthSignOut
  \/ \E rr \in RequiredRolesChoices : PropsChange(rr)

RouteSpec == Init /\ [][RouteNext]_vars

\* the identity provider answers an acquisition
TokenSettles ==
  \/ \E o \in 1..MaxOps : AcquireSuccess(o, Undefined)
  \/ \E o \in 1..MaxOps, e \in SilentErrors : SilentFailure(o, e)
  \/ \E o \in 1..MaxOps, e \in InteractiveErrors : InteractiveFailure(o, e)


\* Scopes: application code asks for tokens of its own scopes while a request
\* of the api client, which asks for the default scopes, and sign-out happen
\* in any order.
ScopeChoices == {NoScopes, ScopesGiven(<<"api.write">>), ScopesGiven(<<>>)}

ScopeNext ==
  \/ \E scopes \in ScopeChoices : AppCall(scopes)
  \/ AppResume
  \/ TokenSettles
  \/ SignOut
  \/ \E r \in PipeRequests : StartRequest(r, "GET", TRUE, TRUE, Undefined)
  \/ \E r \in PipeRequests : TokenDelivered(r)
  \/ \E r \in PipeRequests : Response(r, 200, NoRetryAfter, PlainText, 0)

ScopeSpec == Init /\ [][ScopeNext]_vars

\* One request to its end. Every awaited thing settles in the end: the
\* identity provider answers an acquisition, the network call of an attempt
\* is answered, fails or is aborted by its timeout, a sleep ends, and a
\* suspended buildHeaders resumes once its promise has settled. A request
\* with auth and retries is issued after sign-out, when getAccessToken()
\* rejects at once, so that no attempt waits for more than MaxOps operations.
LiveBodies == {PlainText, [json |-> TRUE, valid |-> TRUE, code |-> "RATE_LIMITED"]}

NetworkSettles(r) ==
  \/ Response(r, 429, NoRetryAfter, PlainText, 0)
  \/ \E status \in {200, 500}, body \in LiveBodies :
       Response(r, status, NoRetryAfter, body, 0)
  \/ FetchFails(r)
  \/ Timeout(r)

LiveNext ==
  \/ TokenSettles
  \/ SignOut
  \/ \E r \in PipeRequests, wa \in BOOLEAN, sk \in BOOLEAN :
       /\ (wa /\ account) => sk
       /\ StartRequest(r, "GET", wa, sk, Undefined)
  \/ \E r \in PipeRequests : TokenDelivered(r)
  \/ \E r \in PipeRequests : NetworkSettles(r)
  \/ \E r \in PipeRequests : SleepEnd(r)

LiveFairness ==
  /\ WF_vars(TokenSettles)
  /\ \A r \in PipeRequests : /\ WF_vars(TokenDelivered(r))
                              /\ WF_vars(NetworkSettles(r))
                              /\ WF_vars(SleepEnd(r))

LiveSpec == Init /\ [][LiveNext]_vars /\ LiveFairness

\* The module-level functions, each called with arguments drawn from the sets
\* below; fn holds the arguments and the result of the latest call.
MaxAttempt == 6              \* attempt indices and failure counts 0..MaxAttempt
FnDraws == {0, 500, 995}     \* Math.random(), in thousandths

\* Retry-After headers: those of the pipeline, and a negative number, a number
\* followed by text (parseInt reads the number), hints of and beyond the cap
FnHeaders ==
  RetryAfterHeaders \cup
    {[kind |-> "int", v |-> -5], [kind |-> "int", v |-> 30], [kind |-> "int", v |-> 60],
     [kind |-> "intText", v |-> 5], [kind |-> "date", v |-> -3000]}

\* details.retryAfterSeconds of the error given to the query layer
FnHints == {Undefined, -5, 0, 2, 30, 60}

\* lines 325-326: parseRetryAfter, then calculateBackoffDelay
CallBackoffDelay(attempt, hdr, rnd) ==
  /\ fn' = [f |-> "calculateBackoffDelay", attempt |-> attempt, hdr |-> hdr,
            hint |-> ParseRetryAfter(hdr), rnd |-> rnd,
            out |-> CalculateBackoffDelay(attempt, ParseRetryAfter(hdr), rnd)]
  /\ UNCHANGED <<tokenVars, account, now, calls, cbWaiting, req, envVars, pageVars>>

\* query-client.ts lines 68 and 84: retryDelay of queries and mutations
CallRetryDelay(failureCount, statusCode, hint, rnd) ==
  /\ fn' = [f |-> "calculateRetryDelay", attempt |-> failureCount,
            statusCode |-> statusCode, hint |-> hint, rnd |-> rnd,
            out |-> CalculateRetryDelay(failureCount, statusCode, hint, rnd)]
  /\ UNCHANGED <<tokenVars, account, now, calls, cbWaiting, req, envVars, pageVars>>

\* line 104: getApiBaseUrl() with NEXT_PUBLIC_API_URL = u
CallGetApiBaseUrl(u) ==
  /\ fn' = [f |-> "getApiBaseUrl", url |-> u, production |-> isProduction,
            out |-> GetApiBaseUrl(u, isProduction)]
  /\ UNCHANGED <<tokenVars, account, now, calls, cbWaiting, req, envVars, pageVars>>

\* defaultQueryOptions.queries.retry, query-client.ts lines 47-67; the error is
\* an ApiError object (it has a statusCode property) or an exception without one
QueryRetry_Inclusive(failureCount, error) ==
  IF error.kind = "ApiError" /\ error.statusCode = 429 THEN failureCount <= 2
  ELSE IF error.kind = "ApiError" /\ error.statusCode # Undefined
          /\ error.statusCode # 0 /\ error.statusCode >= 400 /\ error.statusCode < 500
  THEN FALSE
  ELSE failureCount < 3
QueryRetry(failureCount, error) ==
  IF error.kind = "ApiError" /\ error.statusCode = 429 THEN failureCount < 2
  ELSE IF error.kind = "ApiError" /\ error.statusCode # Undefined
          /\ error.statusCode # 0 /\ error.statusCode >= 400 /\ error.statusCode < 500
  THEN FALSE
  ELSE failureCount < 3

\* defaultQueryOptions.mutations.retry, query-client.ts lines 74-83
MutationRetry(failureCount, error) ==
  IF error.kind = "ApiError" /\ error.statusCode = 429 THEN failureCount < 1
  ELSE FALSE

\* what one invocation of the pipeline rejects with, and the network calls it
\* has made by then under the default settings: RATE_LIMITED after
\* maxRetries + 1 calls, CSRF_TOKEN_MISSING before the first, the others after
\* any call
PipelineErrors ==
  {ApiErr("RATE_LIMITED", 429, Undefined), ApiErr("RATE_LIMITED", 429, 2),
   ApiErr("TIMEOUT", 408, Undefined), ApiErr("CSRF_TOKEN_MISSING", 403, Undefined),
   ApiErr("HTTP_404", 404, Undefined), ApiErr("HTTP_500", 500, Undefined),
   RawErr("TypeError")}
NetCallsOf(error) ==
  IF error.code = "RATE_LIMITED" THEN {maxRetries + 1}
  ELSE IF error.code = "CSRF_TOKEN_MISSING" THEN {0}
  ELSE 1..(maxRetries + 1)

\* the retry option applied to a failure, lines 47 and 74
RetryOf(kind, failureCount, error) ==
  IF kind = "query" THEN QueryRetry(failureCount, error)
  ELSE MutationRetry(failureCount, error)

\* a query or a mutation of the QueryClient of line 92 starts: its function
\* invokes the pipeline for the first time
StartQuery(kind) ==
  /\ fn' = [f |-> kind, failureCount |-> 0, invocations |-> 1, netCalls |-> 0,
            n429 |-> 0, retried429 |-> 0, retried4xx |-> 0, err |-> NoError,
            out |-> "pending"]
  /\ UNCHANGED <<tokenVars, account, now, calls, cbWaiting, req, envVars, pageVars>>

\* the invocation rejects with error e after n network calls: the retry option
\* is asked with the number of failures before this one; on true the pipeline
\* is invoked again (after retryDelay), on false the error is surfaced
QueryFnRejects(e, n) ==
  /\ fn.f \in {"query", "mutation"} /\ fn.out = "pending"
  /\ LET is429 == e.kind = "ApiError" /\ e.statusCode = 429
         is4xx == e.kind = "ApiError" /\ e.statusCode >= 400 /\ e.statusCode < 500
         seen == [fn EXCEPT !.netCalls = @ + n, !.err = e,
                            !.n429 = IF is429 THEN @ + 1 ELSE @]
     IN fn' = IF RetryOf(fn.f, fn.failureCount, e)
              THEN [seen EXCEPT !.failureCount = @ + 1, !.invocations = @ + 1,
                                !.retried429 = IF is429 THEN @ + 1 ELSE @,
                                !.retried4xx = IF is4xx /\ ~is429 THEN @ + 1 ELSE @]
              ELSE [seen EXCEPT !.out = "error"]
  /\ UNCHANGED <<tokenVars, account, now, calls, cbWaiting, req, envVars, pageVars>>

\* the invocation resolves after n network calls
QueryFnResolves(n) ==
  /\ fn.f \in {"query", "mutation"} /\ fn.out = "pending"
  /\ fn' = [fn EXCEPT !.netCalls = @ + n, !.out = "success"]
  /\ UNCHANGED <<tokenVars, account, now, calls, cbWaiting, req, envVars, pageVars>>

FnInit ==
  /\ InitBase
  /\ isProduction \in BOOLEAN
  /\ csrfToken = 1
  /\ fn = NoFn
  /\ InitPage

FnNext ==
  \/ \E attempt \in 0..MaxAttempt, hdr \in FnHeaders, rnd \in FnDraws :
       CallBackoffDelay(attempt, hdr, rnd)
  \/ \E n \in 0..MaxAttempt, st \in {429, 500}, h \in FnHints, rnd \in FnDraws :
       CallRetryDelay(n, st, h, rnd)
  \/ \E u \in ConfiguredUrls : CallGetApiBaseUrl(u)
  \/ \E kind \in {"query", "mutation"} : StartQuery(kind)
  \/ \E e \in PipelineErrors : \E n \in NetCallsOf(e) : QueryFnRejects(e, n)
  \/ \E n \in 1..(maxRetries + 1) : QueryFnResolves(n)

FnSpec == FnInit /\ [][FnNext]_vars

\* ===================================================================== claims

Holds(c) == calls[c].op > 0        \* caller c holds the promise of an operation

\* C1: single-flight. At most one RefreshOperation is in progress in every
\* state; all getAccessToken() calls made before the first of them settles
\* hold the promise of one and the same operation, so a single silent
\* acquisition serves them, and they resolve to the same token.
C1_SingleFlight ==
  /\ Cardinality(OpsInProgress) <= 1
  /\ Len(ops) <= SettledCount + 1
  /\ \A o1, o2 \in DOMAIN ops : ops[o1].w = ops[o2].w => o1 = o2
  /\ \A c1, c2 \in Callers :
       (Holds(c1) /\ Holds(c2) /\ calls[c1].w = calls[c2].w)
         => /\ calls[c1].op = calls[c2].op
            /\ (calls[c1].got.kind = "token" => calls[c2].got.tok = calls[c1].got.tok)

\* two callers joined in one operation, which has resolved to a token
C1_Witness ==
  \E c1, c2 \in Callers :
    /\ c1 # c2 /\ Holds(c1) /\ calls[c1].op = calls[c2].op
    /\ calls[c1].got.kind = "token" /\ calls[c2].got.kind = "token"

\* C2: every caller that called while an operation was in progress observes
\* the outcome of the caller that started it: nothing while it is in
\* progress, then the same token, or the same error.
C2_SameOutcome ==
  /\ \A c1, c2 \in Callers :
       (Holds(c1) /\ Holds(c2) /\ calls[c1].w = calls[c2].w)
         => calls[c1].got = calls[c2].got
  /\ \A c \in Callers :
       Holds(c) =>
         LET op == ops[calls[c].op]
         IN /\ InProgress(op) => calls[c].got = NoResult
            /\ op.phase = "rejected" => calls[c].got = Rejected(op.err)
            /\ op.phase = "fulfilled" => calls[c].got.kind = "token"

\* two callers joined in one operation, which has rejected
C2_Witness ==
  \E c1, c2 \in Callers :
    /\ c1 # c2 /\ Holds(c1) /\ calls[c1].op = calls[c2].op
    /\ calls[c1].got.kind = "error" /\ calls[c2].got.kind = "error"

\* C3: once no operation is in progress the flag is reset and the handle is
\* cleared, whatever the outcome was; the promise a caller holds is never that
\* of an operation that had settled before the call.
C3_ReleasedOnSettle ==
  /\ OpsInProgress = {} => (~isRefreshing /\ tokenRefreshPromise = 0)
  /\ \A c \in Callers : Holds(c) => ops[calls[c].op].w = calls[c].w

\* a caller holds a fresh operation started after an earlier one had rejected
C3_Witness ==
  \E c \in Callers : \E o \in DOMAIN ops :
    Holds(c) /\ o < calls[c].op /\ ops[o].phase = "rejected"

\* C4: within one operation acquireTokenPopup is called at most once and only
\* after acquireTokenSilent has failed; the operation rejects only after both
\* have failed, with the interactive acquisition's error.
C4_InteractiveFallback ==
  /\ \A o \in DOMAIN ops :
       /\ ops[o].popups <= 1
       /\ ops[o].popups = 1 => ops[o].silentFailed
       /\ ops[o].phase = "silent" => (ops[o].popups = 0 /\ ~ops[o].silentFailed)
       /\ ops[o].phase = "popup" => ops[o].popups = 1
       /\ ops[o].phase = "rejected" =>
            (ops[o].silentFailed /\ ops[o].popups = 1 /\ ops[o].err \in InteractiveErrors)
  /\ \A c \in Callers :
       (Holds(c) /\ calls[c].got.kind = "error") => calls[c].got.err \in InteractiveErrors

\* an operation has rejected and a caller has its error
C4_Witness ==
  \E c \in Callers :
    Holds(c) /\ ops[calls[c].op].phase = "rejected" /\ calls[c].got.kind = "error"

\* C5: the step in which an acquisition of a credential expiring at T succeeds
\* leaves exactly the timer due at T - 5 min pending when that instant is
\* strictly in the future, and no timer at all when it is now or past or when
\* expiresOn is null.
C5_RenewalScheduled ==
  [][\A o \in DOMAIN ops :
       (InProgress(ops[o]) /\ ops'[o].phase = "fulfilled") =>
         IF lastExpiresOn' # Undefined /\ lastExpiresOn' - TOKEN_REFRESH_BUFFER_MS > now
         THEN /\ Cardinality(timers') = 1
              /\ \A t \in timers' :
                   t.id = o /\ t.at = lastExpiresOn' - TOKEN_REFRESH_BUFFER_MS
         ELSE timers' = {}]_vars

\* an acquisition has succeeded and its renewal timer is pending
C5_Witness ==
  \E t \in timers :
    /\ ops[t.id].phase = "fulfilled"
    /\ t.at = lastExpiresOn - TOKEN_REFRESH_BUFFER_MS /\ t.at > now

\* C6: at most one renewal timer is pending in every state.
C6_OneRenewalTimer == Cardinality(timers) <= 1

\* the one pending timer was set by an acquisition that cancelled the pending
\* timer of an earlier one
C6_Witness ==
  /\ Cardinality(timers) = 1
  /\ \E t \in timers : t.replaced /\ tokenRefreshTimeout = t.id

Ended(rec) == rec.pc \in {"resolved", "rejected"}
All429(rec) == rec.resp = rec.r429      \* every response so far was a 429

\* C7: every value ApiClient.request rejects with is an ApiError object with
\* a code.
C7_OnlyApiErrors ==
  \A r \in Requests :
    req[r].pc = "rejected" => (req[r].err.kind = "ApiError" /\ req[r].err.code # "")

\* C8, as claimed: once maxRetries consecutive 429 responses have come in, the
\* request has been rejected with RATE_LIMITED (statusCode 429) carrying the
\* hint of the last of them.
C8_ExhaustionAtMaxRetries ==
  \A r \in Requests :
    (All429(req[r]) /\ req[r].r429 >= 1 /\ req[r].r429 = MaxRetriesFor(req[r].skip))
      => /\ req[r].pc = "rejected"
         /\ req[r].err = ApiErr("RATE_LIMITED", 429, req[r].lastHint)

\* C8, amended: once maxRetries + 1 consecutive 429 responses have come in (one
\* for each attempt), the request has been rejected with RATE_LIMITED
\* (statusCode 429) carrying the hint parsed from the last of them, and it has
\* made maxRetries + 1 network calls, the last one being the rejected one.
C8_Exhaustion ==
  \A r \in Requests :
    (All429(req[r]) /\ req[r].r429 = MaxRetriesFor(req[r].skip) + 1)
      => /\ req[r].pc = "rejected"
         /\ req[r].err = ApiErr("RATE_LIMITED", 429, req[r].lastHint)
         /\ req[r].netCalls = req[r].r429

\* a default request rejected after four 429 responses, the last with a hint
C8_Witness ==
  \E r \in Requests :
    /\ ~req[r].skip /\ All429(req[r]) /\ req[r].r429 = maxRetries + 1
    /\ req[r].pc = "rejected" /\ req[r].err.retryAfterSeconds = 5

\* C9: a logical request makes at most maxRetries + 1 network calls, 4 by
\* default; with skipRateLimitRetry it makes one, never sleeps, and its first
\* 429 is raised as RATE_LIMITED.
C9_NetworkCallBound ==
  \A r \in Requests :
    /\ req[r].netCalls <= (IF req[r].skip THEN 1 ELSE maxRetries + 1)
    /\ req[r].netCalls <= 4
    /\ req[r].skip =>
         /\ req[r].sleeps = 0
         /\ req[r].resp >= 1 => req[r].netCalls = 1
         /\ req[r].r429 >= 1 =>
              (req[r].pc = "rejected" /\ req[r].err.code = "RATE_LIMITED")

\* a request with skipRateLimitRetry rejected by its only response, a 429
C9_Witness ==
  \E r \in Requests :
    /\ req[r].skip /\ req[r].r429 = 1 /\ req[r].netCalls = 1
    /\ req[r].pc = "rejected" /\ req[r].err.code = "RATE_LIMITED"

\* C10: a response whose status is neither 429 nor a success ends the logical
\* request; an attempt after the first is made only after a 429 response.
C10_ResubmitOnlyAfter429 ==
  \A r \in Requests :
    /\ req[r].lastStatus \notin {0, 429} => Ended(req[r])
    /\ (req[r].attempt > 0 /\ ~Ended(req[r])) => req[r].lastStatus = 429

\* C11: every resubmission is preceded by a back-off sleep: of two network
\* calls of one logical request, the later one was issued after a sleep that
\* followed the earlier one, so the calls never outnumber the sleeps by more
\* than one.
C11_SleepBeforeResubmission ==
  \A r \in Requests : req[r].netCalls <= req[r].sleeps + 1

\* a step in which buildHeaders() of request frame a returns or throws, giving
\* frame b: after the awaited token, or at once when no token is asked for
HeadersDone(a, b) ==
  \/ a.pc = "token" /\ b.pc # "token"
  \/ a.pc = "idle" /\ b.pc \notin {"idle", "token"}
  \/ b.attempt > a.attempt /\ b.pc # "token"
       /\ b.attempt <= (IF b.skip THEN 0 ELSE maxRetries)

\* C12: CSRF enforcement. When buildHeaders() finishes for a POST, PUT, PATCH
\* or DELETE request while no anti-forgery token is available, then in
\* production the request rejects with CSRF_TOKEN_MISSING (statusCode 403)
\* and no network call is made for that attempt (none at all on the first
\* attempt); outside production the network call is issued without an
\* X-CSRF-Token header.
C12_CsrfEnforcement ==
  [][\A r \in Requests :
       LET a == req[r]
           b == req'[r]
       IN (HeadersDone(a, b) /\ b.method \in {"POST", "PUT", "PATCH", "DELETE"}
             /\ csrfToken = 0)
            => IF isProduction
               THEN /\ b.pc = "rejected"
                    /\ b.err = ApiErr("CSRF_TOKEN_MISSING", 403, Undefined)
                    /\ b.netCalls = a.netCalls
                    /\ b.attempt = 0 => b.netCalls = 0
               ELSE /\ b.pc = "fetch"
                    /\ b.netCalls = a.netCalls + 1
                    /\ b.csrfHdr = 0]_vars

\* a DELETE in production rejected for the missing token before any network call
C12_Witness ==
  \E r \in Requests :
    /\ isProduction /\ csrfToken = 0
    /\ req[r].method = "DELETE" /\ req[r].pc = "rejected"
    /\ req[r].err.code = "CSRF_TOKEN_MISSING" /\ req[r].netCalls = 0

\* the errors getAccessToken() rejects with
TokenErrorKinds == SilentErrors \cup InteractiveErrors \cup {"No active account found"}

\* C13: when getAccessToken() rejects for a request that asks for auth, the
\* request goes on: the network call is issued without an Authorization header
\* (unless the CSRF check of the same buildHeaders() rejects it), and no
\* request ever rejects with the token error; a request with withAuth false
\* never calls getAccessToken().
C13_TokenFailureSwallowed ==
  [][\A r \in Requests :
       LET a == req[r]
           b == req'[r]
       IN /\ (a.pc = "token" /\ calls[r].got.kind = "error" /\ b # a)
               => \/ /\ b.pc = "fetch" /\ b.netCalls = a.netCalls + 1
                     /\ b.auth = 0 /\ b.tokRes = "error"
                  \/ /\ b.pc = "rejected" /\ b.err.code = "CSRF_TOKEN_MISSING"
                     /\ isProduction /\ csrfToken = 0
                     /\ b.method \in {"POST", "PUT", "PATCH", "DELETE"}
          /\ b.err.kind \notin TokenErrorKinds
          /\ ~b.withAuth
               => /\ calls'[r] = NoCall /\ b.pc # "token" /\ b.auth = 0
                  /\ b # a => Len(ops') = Len(ops)]_vars

\* the token acquisition failed and the network call is outstanding, without
\* an Authorization header
C13_Witness ==
  \E r \in Requests :
    /\ req[r].withAuth /\ req[r].pc = "fetch" /\ req[r].tokRes = "error"
    /\ req[r].auth = 0 /\ req[r].netCalls = 1

\* C14: every attempt of a logical request builds its headers anew. A request
\* that asks for auth makes a new getAccessToken() call at each attempt and
\* its network call is issued only when that call has settled, carrying the
\* token the call resolved to; the X-CSRF-Token header of the attempt is the
\* anti-forgery token found at the moment the network call is issued.
C14_HeadersPerAttempt ==
  [][\A r \in Requests :
       LET a == req[r]
           b == req'[r]
           got == calls[r].got
       IN /\ (b.pc = "token" /\ a.pc # "token")
               => calls[r] = NoCall /\ calls'[r].op # 0
          /\ b.netCalls > a.netCalls
               => /\ b.pc = "fetch"
                  /\ b.withAuth => /\ a.pc = "token" /\ got.kind # "none"
                                   /\ b.auth = IF got.kind = "token" THEN got.tok ELSE 0
                  /\ ~b.withAuth => b.auth = 0
                  /\ b.csrfHdr = IF b.method \in {"POST", "PUT", "PATCH", "DELETE"}
                                 THEN csrfToken ELSE 0]_vars

\* a resubmission carries the token of the second RefreshOperation and an
\* anti-forgery token set after the page was loaded
C14_Witness ==
  \E r \in Requests :
    /\ req[r].attempt >= 1 /\ req[r].pc = "fetch" /\ req[r].netCalls = req[r].attempt + 1
    /\ req[r].auth = TokenOf(2) /\ req[r].csrfHdr = 2 /\ csrfToken = 2

\* C15: the timeout of an attempt is config.timeout, or 30000 ms when none is
\* given, and it is pending only while the network call of the attempt is
\* outstanding; when it elapses the call is aborted and the request rejects
\* with code TIMEOUT and statusCode 408, for good: the response of the
\* aborted call is never consumed and no further network call is made.
C15_TimeoutRejects ==
  \A r \in Requests :
    /\ req[r].timer # 0
         => /\ req[r].pc = "fetch"
            /\ req[r].timer = (IF req[r].timeout \in {Undefined, 0} THEN 30000
                               ELSE req[r].timeout)
    /\ req[r].aborted
         => /\ req[r].pc = "rejected"
            /\ req[r].err = ApiErr("TIMEOUT", 408, Undefined)
            /\ req[r].netCalls = req[r].resp + 1
            /\ req[r].netCalls = req[r].attempt + 1

\* the timeout hit a resubmission: two 429 responses, then the third call aborted
C15_Witness ==
  \E r \in Requests :
    /\ req[r].aborted /\ req[r].err.code = "TIMEOUT"
    /\ req[r].attempt = 2 /\ req[r].r429 = 2 /\ req[r].netCalls = 3

\* C16: timeout isolation. In the step in which a request times out, the
\* frame of every other request is left as it was (a network call of theirs
\* stays outstanding, an outcome of theirs stays what it was), and so is the
\* shared RefreshOperation state: flag, handle, operations, renewal timer and
\* the promises the callers hold.
C16_TimeoutIsolation ==
  [][\A r \in Requests :
       (req'[r].aborted /\ ~req[r].aborted)
         => /\ \A q \in Requests \ {r} : req'[q] = req[q]
            /\ UNCHANGED <<tokenVars, calls, cbWaiting>>]_vars

\* request 1 timed out while request 2 was in flight; request 2 then resolved
\* with its own response, and the renewal timer is still pending
C16_Witness ==
  /\ req[1].aborted /\ req[1].err.code = "TIMEOUT" /\ 2 \in req[1].peers
  /\ req[2].pc = "resolved" /\ req[2].data.from = 1 /\ ~req[2].aborted
  /\ timers # {} /\ tokenRefreshTimeout # 0

\* C17: whatever the attempt index, the server's retry hint and the jitter
\* draw, the delay returned by calculateBackoffDelay is at most 30000 ms, and
\* so is the delay returned by the query layer's calculateRetryDelay.
C17_DelayCapped ==
  fn.f \in {"calculateBackoffDelay", "calculateRetryDelay"} => fn.out <= 30000

\* the exponential delay of attempt 5 (32000 ms and its jitter) cut to the cap
C17_Witness ==
  /\ fn.f = "calculateBackoffDelay" /\ fn.attempt = 5 /\ fn.hint = Undefined
  /\ fn.rnd = 995 /\ fn.out = 30000

\* C18: Retry-After precedence. With a positive hint of h seconds the delay
\* lies between h seconds and h seconds plus 20 %, both cut to 30 s, and is
\* the same for every attempt index; with a hint that is absent, unparsable,
\* zero or negative the delay lies between 1000 * 2^attempt ms and that plus
\* 20 %, both cut to 30 s.
C18_RetryAfterPrecedence ==
  fn.f = "calculateBackoffDelay" =>
    LET h == fn.hint
        positive == fn.hdr.kind \in {"int", "intText", "date"} /\ fn.hdr.v > 0
        cut(x) == IF x <= 30000 THEN x ELSE 30000
    IN /\ positive <=> (h # Undefined /\ h > 0)
       /\ fn.hdr.kind \in {"int", "intText"} /\ positive => h = fn.hdr.v
       /\ positive
            => /\ cut(h * 1000) <= fn.out /\ fn.out <= cut(h * 1200)
               /\ \A a \in 0..MaxAttempt :
                    CalculateBackoffDelay(a, h, fn.rnd) = fn.out
       /\ ~positive
            => /\ cut(1000 * 2^fn.attempt) <= fn.out
               /\ fn.out <= cut(1200 * 2^fn.attempt)

\* Retry-After: 2 at attempt 3: 2 s and its jitter, not the 8 s of the
\* exponential formula
C18_Witness ==
  /\ fn.f = "calculateBackoffDelay" /\ fn.attempt = 3
  /\ fn.hdr = [kind |-> "int", v |-> 2] /\ fn.rnd = 995 /\ fn.out = 2398

\* C19: success after retries. A request whose first k-1 responses were 429
\* (k-1 at most the retries its configuration allows) and whose k-th response
\* is a decodable success has resolved with the decoded body of that k-th
\* response, after exactly k network calls and k-1 back-off sleeps; a success
\* at the first attempt takes one network call and no sleep.
C19_SuccessAfterRetries ==
  \A r \in Requests :
    LET rec == req[r]
        k == rec.resp
    IN /\ (rec.pc \in {"resolved", "rejected"} /\ k >= 1 /\ rec.r429 = k - 1
             /\ rec.lastStatus = 200 /\ k - 1 <= (IF rec.skip THEN 0 ELSE maxRetries))
            => \/ /\ rec.pc = "resolved" /\ rec.data.from = k
                  /\ rec.netCalls = k /\ rec.sleeps = k - 1 /\ rec.err = NoError
               \/ rec.pc = "rejected" /\ rec.err.kind = "SyntaxError"
       /\ rec.pc = "resolved" => rec.lastStatus = 200 /\ rec.data.from = k
       /\ rec.pc = "sleep"
            => /\ rec.lastStatus = 429 /\ rec.sleeps = rec.r429
               /\ \E d \in Draws :
                    rec.delay = CalculateBackoffDelay(rec.attempt, rec.lastHint, d)

\* 429 with Retry-After: 2, then 200: resolved after two network calls and one sleep
C19_Witness ==
  \E r \in Requests :
    /\ req[r].pc = "resolved" /\ req[r].resp = 2 /\ req[r].r429 = 1
    /\ req[r].lastHint = 2 /\ req[r].netCalls = 2 /\ req[r].sleeps = 1
    /\ req[r].data = [from |-> 2, as |-> "json"]

\* configured addresses that are not HTTPS, or loopback, unspecified, .local,
\* RFC 1918, unique-local or link-local
InsecureUrls ==
  {"http://api.example.com", "http://localhost:5000", "https://localhost",
   "https://127.0.0.1", "https://127.8.8.8", "https://[::1]", "https://0.0.0.0",
   "https://emr.local", "https://10.0.0.5", "https://172.16.0.9",
   "https://192.168.1.1", "https://[fd00::1]", "https://[fe80::1]"}

\* C20: base-URL resolution. For a configured address that is not HTTPS, or is
\* loopback, unspecified, .local, RFC 1918, unique-local or link-local,
\* getApiBaseUrl() throws in production and never returns the address, and
\* returns that address outside production; with no address configured it
\* throws in production and outside production returns http://localhost:5000
\* after a warning.
C20_BaseUrlResolution ==
  fn.f = "getApiBaseUrl" =>
    /\ fn.url \in InsecureUrls
         => IF fn.production THEN fn.out.kind = "throw"
            ELSE fn.out.kind = "return" /\ fn.out.value = fn.url
    /\ fn.url = ""
         => IF fn.production THEN fn.out.kind = "throw"
            ELSE fn.out = Returned("http://localhost:5000", TRUE)

\* C26: backoff monotonicity. With no usable server hint, the delay computed for
\* attempt i + 1 is at least the delay computed for attempt i, for every pair of
\* jitter draws (base 1000 ms doubling per attempt, 20 % jitter, cap 30000 ms).
C26_BackoffMonotone ==
  (fn.f = "calculateBackoffDelay" /\ ~HintUsable(fn.hint)) =>
    \A rnd2 \in FnDraws :
      CalculateBackoffDelay(fn.attempt + 1, fn.hint, rnd2) >= fn.out
\* the largest draw at attempt 4 (19184 ms) against the smallest at attempt 5
C26_Witness ==
  /\ fn.f = "calculateBackoffDelay" /\ fn.hint = Undefined
  /\ fn.attempt = 4 /\ fn.rnd = 995 /\ fn.out = 19184
  /\ CalculateBackoffDelay(5, Undefined, 0) = maxDelayMs

\* C28: the timeout is per attempt and covers the network call only. A timeout
\* timer is pending exactly while the network call of an attempt is
\* outstanding, and then it is the full timeout of the request, also for a
\* resubmission; none is pending while the request waits in getAccessToken()
\* or in the back-off sleep, so TIMEOUT is raised only against an outstanding
\* call; none is pending once the request has settled.
C28_TimeoutPerAttempt ==
  \A r \in Requests :
    /\ (req[r].timer # 0) <=> (req[r].pc = "fetch")
    /\ req[r].pc = "fetch" => /\ req[r].timer = TimeoutFor(req[r].timeout)
                              /\ req[r].netCalls = req[r].resp + 1
    /\ req[r].pc \in {"token", "sleep"} => /\ req[r].timer = 0
                                           /\ ~req[r].aborted
                                           /\ req[r].err = NoError
    /\ req[r].err.code = "TIMEOUT" => /\ req[r].aborted
                                      /\ req[r].netCalls = req[r].resp + 1
    /\ req[r].pc \in {"resolved", "rejected"} => req[r].timer = 0
\* the resubmission after one back-off sleep has the full 5000 ms again
C28_Witness ==
  \E r \in Requests :
    /\ req[r].pc = "fetch" /\ req[r].attempt = 1 /\ req[r].sleeps = 1
    /\ req[r].timeout = 5000 /\ req[r].timer = 5000

\* C24: every response with a non-success status other than 429 makes the
\* request reject with an error whose statusCode is the response status and
\* whose code is HTTP_<status>.
C24_HttpErrorRejects ==
  \A r \in Requests :
    req[r].lastStatus \notin {0, 200, 429}
      => /\ req[r].pc = "rejected"
         /\ req[r].err.kind = "ApiError"
         /\ req[r].err.statusCode = req[r].lastStatus
         /\ req[r].err.code = HttpCode(req[r].lastStatus)

\* C25: when the renewal timer fires its callback calls getAccessToken(); with
\* no operation in progress and no active account that call rejects at once
\* and starts no acquisition. Whatever the call settles to, the resumed
\* callback leaves nothing behind: no unhandled rejection, and no change to
\* any request or to the call of any other caller. A request is only ever
\* given the rejection of an operation it holds, or that of its own call made
\* with no account.
C25_TimerFailureCaught ==
  [][/\ (~cbWaiting /\ cbWaiting')
          => /\ calls'[TimerCb].op # 0
             /\ (~RefreshInProgress /\ ~account)
                  => /\ ops' = ops
                     /\ calls'[TimerCb].got = Rejected("No active account found")
             /\ req' = req
             /\ \A r \in Requests : calls'[r] = calls[r]
     /\ (cbWaiting /\ ~cbWaiting')
          => /\ calls[TimerCb].got.kind # "none"
             /\ UNCHANGED <<tokenVars, req>>
             /\ \A r \in Requests : calls'[r] = calls[r]
     /\ ~unhandled'
     /\ \A r \in Requests :
          calls'[r].got.kind = "error"
            => \/ calls'[r].op = NoAccountPromise
               \/ /\ calls'[r].op \in DOMAIN ops'
                  /\ calls'[r].got = Rejected(ops'[calls'[r].op].err)]_vars
\* after sign-out the timer fired and the callback's call was rejected with no
\* acquisition started
C25_Witness ==
  /\ cbWaiting /\ ~account
  /\ calls[TimerCb].op = NoAccountPromise
  /\ calls[TimerCb].got = Rejected("No active account found")
  /\ OpsInProgress = {}
\* the timer's own operation failed in both acquisitions
C25_WitnessBothFailed ==
  /\ cbWaiting /\ Holds(TimerCb)
  /\ ops[calls[TimerCb].op].phase = "rejected" /\ ops[calls[TimerCb].op].popups = 1
  /\ calls[TimerCb].got.kind = "error"
  /\ \A r \in Requests : calls[r].op # calls[TimerCb].op

\* C23: the retry tier of the query layer. A failure with statusCode 429 is
\* retried at most twice by a query and at most once by a mutation; a failure
\* with any other 4xx status (TIMEOUT 408, CSRF_TOKEN_MISSING 403, 404) is
\* never retried; a query whose every invocation is rejected with 429 surfaces
\* the error after exactly 3 invocations of the pipeline and at most 12 network
\* calls, a mutation after exactly 2 invocations and at most 8 network calls.
C23_QueryRetryTier ==
  /\ fn.f \in {"query", "mutation"} => fn.retried4xx = 0
  /\ fn.f = "query"
       => /\ fn.retried429 <= 2
          /\ (fn.out = "error" /\ fn.n429 = fn.invocations)
               => /\ fn.invocations = 3
                  /\ fn.netCalls <= 3 * (maxRetries + 1) /\ fn.netCalls <= 12
          /\ (fn.out = "pending" /\ fn.n429 = fn.invocations - 1) => fn.invocations <= 3
  /\ fn.f = "mutation"
       => /\ fn.retried429 <= 1
          /\ (fn.out = "error" /\ fn.n429 = fn.invocations)
               => /\ fn.invocations = 2
                  /\ fn.netCalls <= 2 * (maxRetries + 1) /\ fn.netCalls <= 8
          /\ (fn.out = "error" /\ fn.n429 = 0) => fn.invocations = 1
\* a query rejected with 429 three times over: 12 network calls, error surfaced
C23_Witness ==
  /\ fn.f = "query" /\ fn.out = "error" /\ fn.err.code = "RATE_LIMITED"
  /\ fn.n429 = 3 /\ fn.invocations = 3 /\ fn.netCalls = 12 /\ fn.retried429 = 2
\* a mutation rejected with 429 twice
C23_WitnessMutation ==
  /\ fn.f = "mutation" /\ fn.out = "error" /\ fn.n429 = 2 /\ fn.invocations = 2
  /\ fn.netCalls = 8

\* request r is issued in this step for a path, so that buildUrl resolves the
\* base URL
ResolvesIn(r) ==
  req[r].pc = "idle" /\ req'[r].pc # "idle" /\ ~IsAbsolute(req'[r].endpoint)

\* C21: the base URL is resolved on first use and cached after the first
\* successful resolution. The caches change only in a step that issues a
\* request and, once set, never again. A use with the cache set takes the
\* cached value whatever NEXT_PUBLIC_API_URL has become and is not rejected by
\* the validation; a use with the cache unset evaluates the configuration of
\* that moment: a valid one is stored in both caches, an invalid one rejects
\* the request and stores nothing.
C21_LazyCached ==
  [][/\ cachedApiBaseUrl # NullUrl => cachedApiBaseUrl' = cachedApiBaseUrl
     /\ baseUrl # NullUrl => baseUrl' = baseUrl
     /\ (cachedApiBaseUrl' # cachedApiBaseUrl \/ baseUrl' # baseUrl)
          => \E r \in Requests : ResolvesIn(r)
     /\ \A r \in Requests :
          ResolvesIn(r) =>
            LET res == GetApiBaseUrl(NEXT_PUBLIC_API_URL, isProduction)
            IN IF baseUrl # NullUrl
               THEN /\ req'[r].err # RawErr("Error")
                    /\ StartsWith(req'[r].url, baseUrl)
               ELSE IF res.kind = "return"
               THEN /\ cachedApiBaseUrl' = res.value /\ baseUrl' = res.value
                    /\ req'[r].err # RawErr("Error")
                    /\ StartsWith(req'[r].url, res.value)
               ELSE /\ cachedApiBaseUrl' = NullUrl /\ baseUrl' = NullUrl
                    /\ req'[r].pc = "rejected" /\ req'[r].err = RawErr("Error")
                    /\ req'[r].netCalls = 0]_vars
\* in production a request goes to the cached base URL while the configuration
\* has become one the validation rejects
C21_Witness ==
  /\ isProduction /\ NEXT_PUBLIC_API_URL = "http://localhost:5000"
  /\ cachedApiBaseUrl = "https://api.example.com" /\ baseUrl = cachedApiBaseUrl
  /\ \E r \in Requests : /\ req[r].pc = "fetch"
                         /\ req[r].url = "https://api.example.com/patients?page=2"
\* a failed resolution: the request is rejected and nothing is cached
C21_WitnessFailed ==
  /\ isProduction /\ cachedApiBaseUrl = NullUrl /\ baseUrl = NullUrl
  /\ \E r \in Requests : /\ req[r].pc = "rejected" /\ req[r].err = RawErr("Error")
                         /\ req[r].netCalls = 0

\* C22: every network call of the pipeline targets the resolved base URL
\* followed by the endpoint argument and the string-encoded query parameters.
C22_UnderBaseUrl ==
  \A r \in Requests :
    req[r].netCalls > 0
      => /\ baseUrl # NullUrl
         /\ StartsWith(req[r].url, baseUrl \o req[r].endpoint)

\* C30: given that every getAccessToken() settles, every network call is
\* answered or aborted and every sleep ends, a request that was issued
\* eventually resolves or rejects; it makes at most maxRetries + 1 attempts
\* on the way, and never rejects with the UNKNOWN error of the fallback after
\* the loop.
C30_RequestSettles ==
  /\ [](\A r \in PipeRequests :
          /\ req[r].attempt <= MaxRetriesFor(req[r].skip)
          /\ req[r].netCalls <= maxRetries + 1
          /\ req[r].err.code # "UNKNOWN")
  /\ \A r \in PipeRequests :
       (req[r].pc # "idle") ~> (req[r].pc \in {"resolved", "rejected"})
\* the last attempt of a request that was rate limited maxRetries times
C30_Witness ==
  \E r \in PipeRequests :
    /\ req[r].pc = "resolved" /\ req[r].attempt = maxRetries
    /\ req[r].netCalls = maxRetries + 1 /\ req[r].sleeps = maxRetries

\* C29: a getAccessToken(scopes) call made while an operation is in progress
\* returns the promise of that operation, whatever its scopes argument and
\* whether or not an account is active: the call starts no acquisition, and
\* the token a caller receives is the one acquired by the operation it
\* holds, for the scopes that operation was started with.
C29_JoinIgnoresScopes ==
  [][\A c \in Callers :
       /\ (calls[c].op = 0 /\ calls'[c].op # 0 /\ RefreshInProgress)
            => /\ calls'[c].op = tokenRefreshPromise
               /\ calls'[c].got = NoResult
               /\ ops' = ops
               /\ tokenRefreshPromise' = tokenRefreshPromise
       /\ calls'[c].got.kind = "token"
            => /\ calls'[c].op \in DOMAIN ops'
               /\ ops'[calls'[c].op].phase = "fulfilled"
               /\ calls'[c].got.tok = TokenOf(calls'[c].op)]_vars
\* after sign-out the application asked for api.write while the request's
\* operation was in progress, and was given the token acquired for api.read
C29_Witness ==
  /\ ~account
  /\ calls[AppCaller].scopes = ScopesGiven(<<"api.write">>)
  /\ Holds(AppCaller)
  /\ ops[calls[AppCaller].op].scopes = DefaultScopes
  /\ EffectiveScopes(calls[AppCaller].scopes) # ops[calls[AppCaller].op].scopes
  /\ calls[AppCaller].got = Fulfilled(TokenOf(calls[AppCaller].op))

\* C27: ProtectedRoute returns its children only in a render pass in which
\* loading is finished, the auth check is complete, the user is authenticated
\* and holds a required role (when roles are required); in every other render
\* pass it returns the spinner or nothing.
C27_ChildrenOnlyWithAccess ==
  [][(route.mounted /\ route.needsRender /\ ~route'.needsRender
        /\ route'.out = "children")
       => /\ ~route.isLoading
          /\ route.authCheckComplete
          /\ route.isAuthenticated
          /\ ~LacksRole(route.requiredRoles, route.userRole)]_vars

====
